---- MODULE Spec2Model ----
(***************************************************************************)
(* mountmon.py -- daemon that monitors mountpoints.                        *)
(*                                                                         *)
(* The model follows one run of the script: __main__ reads the config      *)
(* file, then either sends the Zabbix "clear" and exits, or enters         *)
(* MainLoop, which calls MountMon for every configured mountpoint and      *)
(* sleeps.  MountMon is modelled one blocking call at a time (ismount,     *)
(* listdir, the external mount/umount commands, the settle delays, mkdir,  *)
(* the checkfile write), because a KeyboardInterrupt can be raised at any  *)
(* of these calls and where it is raised decides who catches it.  The      *)
(* outcome of every call is an input drawn by the step that makes it.      *)
(* Time is counted in ticks of 1/TicksPerSec second.                       *)
(***************************************************************************)
EXTENDS Integers, Sequences, FiniteSets, TLC

\* ---------------------------------------------------------------- bounds
MaxMounts == 2
\* MountMon calls followed in one run with remount
MaxChecks == 1
\* the same, for a run that neither remounts nor alerts
MaxPlainChecks == 3
\* the same, for a run that alerts and does not remount
MaxAlertChecks == 2
\* KeyboardInterrupts delivered in one run
MaxInterrupts == 1
\* passes of the outer loop over an empty mountpoint set
MaxPasses == 2
\* clock resolution: ticks per second
TicksPerSec == 2

\* the clock when the process starts, in ticks
Epoch == 1

\* ---------------------------------------------------------------- inputs
\* the values of cfg['interval'] tried, in ticks
Intervals == {2, 3}
\* ticks the mount-state query may take (its lstat calls block on a dead
\* server); the other calls of a check take no time, the sleeps excepted
IoTicks == {0, 1}

\* ------------------------------------------------------ program constants
OK == 0
NotMounted == 1
Stale == 2
CheckDirUnavailable == 3
WriteFailed == 4
ConfigMissing == 5
\* seconds of time.sleep after a successful mount or umount
SettleDelay == 2
\* the default 'interval' of __init__, in seconds
DefaultInterval == 60
\* exit status of the interpreter after an uncaught exception
UncaughtStatus == 1
\* exit status of sys.exit() and of running off the end of the script
CleanStatus == 0
\* no exit status yet / no value returned yet
None == 0 - 1

VARIABLES
    pc,         \* position of the single thread of control
    args,       \* [zabbix_clear]: the parsed command line
    cfgfile,    \* the mappings the config file supplies: none (no usable file) or one
    cfg,        \* self.cfg
    logger,     \* TRUE once SetLogging has set self.logger
    now,        \* the wall clock, in ticks
    starttime,  \* MainLoop's starttime
    idx,        \* position of the for loop in cfg.mounts (0 before the first)
    passes,     \* completed passes of the outer while loop
    err,        \* value returned by the last MountMon call (None while it runs)
    exc,        \* exception that ended MountMon / the process ("none" if none)
    mainloop,   \* "no", "running", "returned", "raised"
    exitcode,   \* exit status of the process (None while it runs)
    checkfile,  \* content of each mountpoint's checkfile, a sequence of lines
    prevfile,   \* checkfile as it was when the current MountMon call started
    ops,        \* calls made by the current MountMon call: [op, ev, at], at being
                \* the clock at the checkfile write (None for the other calls)
    sent,       \* metrics handed to zbx.send since the current call started
    looplog,    \* what MainLoop has logged after each call: [mp, err]
    wakeups,    \* the clock at the end of each completed cadence sleep
    intr        \* KeyboardInterrupts delivered so far

vars == <<pc, args, cfgfile, cfg, logger, now, starttime, idx, passes, err, exc,
          mainloop, exitcode, checkfile, prevfile, ops, sent, looplog, wakeups, intr>>

\* ------------------------------------------------------------ configuration
RECURSIVE SeqsUpTo(_, _)
SeqsUpTo(S, n) ==
    IF n = 0 THEN {<<>>}
    ELSE LET shorter == SeqsUpTo(S, n - 1)
         IN  shorter \cup {Append(s, x) : s \in {q \in shorter : Len(q) = n - 1}, x \in S}

\* cfg['mountpoints'] as the sequence of its write_check flags, in dict order
MountSets == SeqsUpTo(BOOLEAN, MaxMounts)

\* cfg['zabbix_address']: no such key, the address of a server that takes the
\* metrics ("up"), or an address at which zbx.send raises ("down")
ZabbixAddresses == {"absent", "up", "down"}

Cfgs == [remount : BOOLEAN, zabbix : BOOLEAN, zabbix_address : ZabbixAddresses,
         interval : Intervals, mounts : MountSets]

\* the config files a command line is run with.  'zabbix_address' is read by
\* ZabbixSend only, which runs with cfg['zabbix'] or for --zabbix_clear: for
\* the other runs its value makes no difference and one address stands for all
ConfigFiles(a) ==
    {c \in Cfgs : a.zabbix_clear \/ c.zabbix \/ c.zabbix_address = "up"}

\* self.cfg as __init__ builds it: no 'zabbix_address' key at all
DefaultCfg == [remount |-> FALSE, zabbix |-> FALSE, zabbix_address |-> "absent",
               interval |-> DefaultInterval * TicksPerSec, mounts |-> <<TRUE>>]

\* time.ctime(): the clock formatted with a resolution of one second
ctime(t) == t \div TicksPerSec

\* ------------------------------------------------------------ alerting
\* ZabbixSend(value): the outcomes of one call.  The ZabbixSender is built
\* from cfg['zabbix_address'] outside the try (KeyError when the key is
\* absent); zbx.send and the logger.debug after it are inside a bare except
\* whose handler logs again.  A metric handed to zbx.send is recorded with
\* ok = FALSE when the send raised; host and key stand for cfg['hostname']
\* and, key being '', cfg['zabbix_trigger'].
ZabbixSend(c, lg, value) ==
    IF c.zabbix_address = "absent" THEN [exc |-> "KeyError", out |-> <<>>]
    ELSE [exc |-> IF lg THEN "none" ELSE "AttributeError",
          out |-> <<[host |-> "hostname", key |-> "zabbix_trigger", value |-> value,
                     ok |-> c.zabbix_address = "up"]>>]

\* Error without its ZabbixSend
ErrorNoAlert(c, lg, to_zabbix) ==
    [exc |-> IF lg THEN "none" ELSE "AttributeError", out |-> <<>>]

\* Error without its test of cfg['zabbix']
ErrorAlwaysAlert(c, lg, to_zabbix) ==
    LET o == ZabbixSend(c, lg, to_zabbix)
    IN  [exc |-> IF o.exc = "none" /\ ~lg THEN "AttributeError" ELSE o.exc, out |-> o.out]

\* Error(output, to_zabbix): ZabbixSend if cfg['zabbix'], then logger.error,
\* which raises AttributeError while self.logger is not set
Error(c, lg, to_zabbix) ==
    IF c.zabbix
    THEN LET o == ZabbixSend(c, lg, to_zabbix)
         IN  [exc |-> IF o.exc = "none" /\ ~lg THEN "AttributeError" ELSE o.exc,
              out |-> o.out]
    ELSE [exc |-> IF lg THEN "none" ELSE "AttributeError", out |-> <<>>]

\* ------------------------------------------------------------ control
Goto(p) == pc' = p /\ UNCHANGED <<err, exc, mainloop, exitcode, looplog>>

\* an exception nobody catches: traceback, exit status 1
Uncaught(e) ==
    /\ pc' = "exit"
    /\ exc' = e
    /\ exitcode' = UncaughtStatus
    /\ mainloop' = IF mainloop = "running" THEN "raised" ELSE mainloop
    /\ UNCHANGED <<err, looplog>>

Init ==
    /\ pc = "start"
    /\ args \in [zabbix_clear : BOOLEAN]
    /\ cfgfile \in {{}} \cup {{c} : c \in ConfigFiles(args)}
    /\ cfg = DefaultCfg
    /\ logger = FALSE
    /\ now = Epoch
    /\ starttime = 0
    /\ idx = 0
    /\ passes = 0
    /\ err = None
    /\ exc = "none"
    /\ mainloop = "no"
    /\ exitcode = None
    /\ checkfile = [m \in 1..MaxMounts |-> <<>>]
    /\ prevfile = [m \in 1..MaxMounts |-> <<>>]
    /\ ops = <<>>
    /\ sent = <<>>
    /\ looplog = <<>>
    /\ wakeups = <<>>
    /\ intr = 0

\* monitor.GetConfig(args.cfgfile).  The load succeeds and cfg is updated, or
\* it fails: open() fails, or yaml.load / cfg.update raise, the latter
\* possibly after cfg.update has already stored the file's leading keys.
\* The handler calls Error(..., 5) and has no exit of its own.
GetConfig ==
    /\ pc = "start"
    /\ UNCHANGED <<args, cfgfile, logger, now, starttime, wakeups, idx, passes, checkfile,
                   prevfile, ops, intr>>
    /\ \/ /\ cfg' \in cfgfile
          /\ sent' = sent
          /\ Goto("loaded")
       \/ /\ cfg' \in {cfg} \cup cfgfile
          /\ LET o == Error(cfg', logger, ConfigMissing)
             IN  /\ sent' = sent \o o.out
                 /\ IF o.exc = "none" THEN Goto("loaded") ELSE Uncaught(o.exc)

\* SetLogging: self.logger = logging.getLogger()
SetLogging == TRUE

\* a clear action that sends an error code
ClearValueWrong == NotMounted

\* the value of monitor.ZabbixSend(0)
ClearValue == 0

\* __main__ with -z: SetLogging, ZabbixSend(0), sys.exit()
ZabbixClear ==
    /\ pc = "loaded"
    /\ args.zabbix_clear
    /\ logger' = SetLogging
    /\ LET o == ZabbixSend(cfg, logger', ClearValue)
       IN  /\ sent' = sent \o o.out
           /\ IF o.exc = "none"
              THEN /\ pc' = "exit"
                   /\ exitcode' = CleanStatus
                   /\ UNCHANGED <<err, exc, mainloop, looplog>>
              ELSE Uncaught(o.exc)
    /\ UNCHANGED <<args, cfgfile, cfg, now, starttime, wakeups, idx, passes, checkfile,
                   prevfile, ops, intr>>

\* __main__ without -z: SetLogging, MainLoop(); MainLoop takes starttime
StartMainLoop ==
    /\ pc = "loaded"
    /\ ~args.zabbix_clear
    /\ logger' = SetLogging
    /\ starttime' = now
    /\ mainloop' = "running"
    /\ pc' = "for"
    /\ UNCHANGED <<args, cfgfile, cfg, now, idx, passes, err, exc, exitcode, looplog, wakeups,
                   checkfile, prevfile, ops, sent, intr>>

\* ------------------------------------------------------------ exceptions
\* a bare except that behaved like "except Exception:"
CatchesExceptionOnly(handler, e) ==
    IF handler = "bare" THEN e # "KeyboardInterrupt" ELSE handler = e

\* whether a handler catches an exception: a bare "except:" catches
\* everything, KeyboardInterrupt included; "except X" catches X alone
Catches(handler, e) == handler = "bare" \/ handler = e

\* the except clauses of the source
RunCommandHandler == "bare"
ListdirHandler == "OSError"
MkdirHandler == "bare"
\* the write guarded like the listings (an IOError is no OSError)
WriteHandlerOSErrorOnly == "OSError"

WriteHandler == "bare"
MainLoopHandler == "KeyboardInterrupt"

\* what the blocking calls can do; a KeyboardInterrupt is raised inside the
\* call that is running when the signal arrives
Signals == IF intr < MaxInterrupts THEN {"KeyboardInterrupt"} ELSE {}
IsmountEvents == {"true", "false"} \cup Signals
ListdirEvents == {"ok", "OSError"} \cup Signals
CommandEvents == {"ok", "nonzero", "OSError"} \cup Signals
MkdirEvents == {"ok", "OSError"} \cup Signals
WriteEvents == {"ok", "IOError"} \cup Signals
SleepEvents == {"ok"} \cup Signals

\* a RunCommand that does not look at the return code
RunCommandIgnoreStatus(ev) ==
    IF ev \in {"ok", "nonzero"} THEN "true"
    ELSE IF Catches(RunCommandHandler, ev) THEN "false"
    ELSE "raise"

\* RunCommand(cmd): TRUE iff the process was spawned and exited with 0;
\* "raise" when the exception gets past its handler
RunCommand(ev) ==
    IF ev = "ok" THEN "true"
    ELSE IF ev = "nonzero" THEN "false"
    ELSE IF Catches(RunCommandHandler, ev) THEN "false"
    ELSE "raise"

\* ------------------------------------------------------------ MountMon
\* the mountpoints taken in the reverse of the configured order
ReverseOrder == Len(cfg.mounts) + 1 - idx

\* the loop variable of "for mountpoint in self.cfg['mountpoints']"
mp == idx
write_check == cfg.mounts[idx]

Record(op, ev) ==
    /\ ops' = Append(ops, [op |-> op, ev |-> ev, at |-> IF op = "write" THEN now ELSE None])
    /\ intr' = IF ev = "KeyboardInterrupt" THEN intr + 1 ELSE intr

\* a loop body that ends with the call of MountMon
AfterCallNoSleep == "for"

\* in the body of the for loop the call of MountMon is followed by the two
\* logger.debug calls and the cadence sleep
AfterCall == "sleep"

\* "return code" of MountMon: back in MainLoop with err = code
Return(code) ==
    /\ pc' = AfterCall
    /\ err' = code
    /\ looplog' = Append(looplog, [mp |-> mp, err |-> code])
    /\ UNCHANGED <<exc, mainloop, exitcode>>

\* an exception leaves MountMon (or the loop body): MainLoop's handler
\* returns on KeyboardInterrupt and the script ends; anything else is uncaught
Propagate(e) ==
    IF Catches(MainLoopHandler, e)
    THEN /\ pc' = "exit"
         /\ exc' = e
         /\ mainloop' = "returned"
         /\ exitcode' = CleanStatus
         /\ UNCHANGED <<err, looplog>>
    ELSE Uncaught(e)

\* self.Error(msg, code) followed by "return code"
Fail(code) ==
    LET o == Error(cfg, logger, code)
    IN  /\ sent' = sent \o o.out
        /\ IF o.exc = "none" THEN Return(code) ELSE Propagate(o.exc)

\* self.Error(msg, code) followed by the next call of the recovery
AlertThen(code, p) ==
    LET o == Error(cfg, logger, code)
    IN  /\ sent' = sent \o o.out
        /\ IF o.exc = "none" THEN Goto(p) ELSE Propagate(o.exc)

\* the "file creation/writing check" is entered only with write_check
WriteCheck(wc) == IF wc THEN "listcd" ELSE "return"

\* a call that sends the clearing value when it finds the mountpoint healthy
OnHealthyClear(c) ==
    IF c.zabbix /\ c.zabbix_address # "absent" THEN ZabbixSend(c, TRUE, OK).out ELSE <<>>

\* "return 0" is not preceded by a call of Error or ZabbixSend: a call that
\* finds the mountpoint healthy sends nothing
OnHealthy(c) == <<>>

ToWriteCheck ==
    IF WriteCheck(write_check) = "listcd"
    THEN Goto("listcd") /\ sent' = sent
    ELSE Return(OK) /\ sent' = sent \o OnHealthy(cfg)

\* a mount attempted whatever cfg['remount'] says
OnNotMountedAlwaysMount(c) == "mount"

\* mountpoint found unmounted: try to mount it only with cfg['remount']
OnNotMounted(c) == IF c.remount THEN "mount" ELSE "return"

\* a failed listing that is not acted upon
OnListFailIgnore(c) == "continue"

\* mountpoint cannot be listed: try to remount it only with cfg['remount']
OnListFail(c) == IF c.remount THEN "umount" ELSE "return"

\* how many MountMon calls of a run are followed
Budget(c) ==
    IF c.remount THEN MaxChecks
    ELSE IF c.zabbix THEN MaxAlertChecks
    ELSE MaxPlainChecks

\* for mountpoint in self.cfg['mountpoints']: err = self.MountMon(mountpoint)
\* (the for statement is inside MainLoop's try; when the mountpoints are
\* exhausted the while loop starts the next pass at once)
ForNext ==
    /\ pc = "for"
    /\ UNCHANGED <<args, cfgfile, cfg, logger, now, starttime, wakeups, checkfile>>
    /\ \E ev \in {"ok"} \cup Signals :
        IF ev # "ok"
        THEN /\ intr' = intr + 1
             /\ Propagate(ev)
             /\ UNCHANGED <<idx, passes, prevfile, ops, sent>>
        ELSE IF idx < Len(cfg.mounts)
        THEN /\ passes * Len(cfg.mounts) + idx < Budget(cfg)
             /\ idx' = idx + 1
             /\ pc' = "ismount"
             /\ err' = None
             /\ looplog' = looplog
             /\ ops' = <<>>
             /\ sent' = <<>>
             /\ prevfile' = checkfile
             /\ UNCHANGED <<passes, exc, mainloop, exitcode, intr>>
        ELSE /\ Len(cfg.mounts) > 0 \/ passes < MaxPasses
             /\ idx' = 0
             /\ passes' = passes + 1
             /\ UNCHANGED <<pc, err, exc, mainloop, exitcode, prevfile, ops, sent, looplog, intr>>

\* if not os.path.ismount(mp): ...
IsMount ==
    /\ pc = "ismount"
    /\ UNCHANGED <<args, cfgfile, cfg, logger, starttime, wakeups, idx, passes,
                   checkfile, prevfile>>
    /\ \E ev \in IsmountEvents, d \in IoTicks :
        /\ Record("ismount", ev)
        /\ now' = now + d
        /\ IF ev = "true" THEN Goto("listdir") /\ sent' = sent
           ELSE IF ev = "false"
                THEN IF OnNotMounted(cfg) = "mount"
                     THEN AlertThen(NotMounted, "mount1")
                     ELSE Fail(NotMounted)
                ELSE Propagate(ev) /\ sent' = sent

\* if self.Mount(mp): time.sleep(2) else: Error; return 1
Mount1 ==
    /\ pc = "mount1"
    /\ UNCHANGED <<args, cfgfile, cfg, logger, starttime, wakeups, idx, passes,
                   checkfile, prevfile>>
    /\ \E ev \in CommandEvents :
        /\ Record("mount", ev)
        /\ now' = now
        /\ IF RunCommand(ev) = "true" THEN Goto("settle1") /\ sent' = sent
           ELSE IF RunCommand(ev) = "false" THEN Fail(NotMounted)
           ELSE Propagate(ev) /\ sent' = sent

\* time.sleep(2): the settle delay
Settle(here, next) ==
    /\ pc = here
    /\ UNCHANGED <<args, cfgfile, cfg, logger, starttime, wakeups, idx, passes,
                   checkfile, prevfile>>
    /\ \E ev \in SleepEvents :
        /\ Record("settle", ev)
        /\ IF ev = "ok"
           THEN /\ now' = now + SettleDelay * TicksPerSec
                /\ IF next = "writecheck" THEN ToWriteCheck
                   ELSE Goto(next) /\ sent' = sent
           ELSE /\ now' = now
                /\ sent' = sent
                /\ Propagate(ev)

\* a mount of an unmounted mountpoint after which the mount state is queried again
AfterMountRecheck == "ismount"

\* after "if self.Mount(mp): time.sleep(2)" the call falls through to the
\* listing of the mountpoint
AfterMount == "listdir"

Settle1 == Settle("settle1", AfterMount)

\* try: os.listdir(mp) except OSError: ...
Listdir ==
    /\ pc = "listdir"
    /\ UNCHANGED <<args, cfgfile, cfg, logger, now, starttime, wakeups, idx, passes,
                   checkfile, prevfile>>
    /\ \E ev \in ListdirEvents :
        /\ Record("listdir", ev)
        /\ IF ev = "ok" THEN ToWriteCheck
           ELSE IF Catches(ListdirHandler, ev)
                THEN IF OnListFail(cfg) = "umount" THEN AlertThen(Stale, "umount")
                     ELSE IF OnListFail(cfg) = "return" THEN Fail(Stale)
                     ELSE ToWriteCheck
                ELSE Propagate(ev) /\ sent' = sent

\* Umount: RunCommand(['/usr/bin/umount', mp]); if it fails the lazy umount follows
Umount ==
    /\ pc = "umount"
    /\ UNCHANGED <<args, cfgfile, cfg, logger, starttime, wakeups, idx, passes,
                   checkfile, prevfile, sent>>
    /\ \E ev \in CommandEvents :
        /\ Record("umount", ev)
        /\ now' = now
        /\ IF RunCommand(ev) = "true" THEN Goto("settle2")
           ELSE IF RunCommand(ev) = "false" THEN Goto("umount_l")
           ELSE Propagate(ev)

\* Umount: return RunCommand(['/usr/bin/umount', '-l', mp]); on failure
\* MountMon calls Error and returns 2
UmountLazy ==
    /\ pc = "umount_l"
    /\ UNCHANGED <<args, cfgfile, cfg, logger, starttime, wakeups, idx, passes,
                   checkfile, prevfile>>
    /\ \E ev \in CommandEvents :
        /\ Record("umount_l", ev)
        /\ now' = now
        /\ IF RunCommand(ev) = "true" THEN Goto("settle2") /\ sent' = sent
           ELSE IF RunCommand(ev) = "false" THEN Fail(Stale)
           ELSE Propagate(ev) /\ sent' = sent

Settle2 == Settle("settle2", "mount2")

\* if self.Mount(mp): time.sleep(2) else: Error; return 2
Mount2 ==
    /\ pc = "mount2"
    /\ UNCHANGED <<args, cfgfile, cfg, logger, starttime, wakeups, idx, passes,
                   checkfile, prevfile>>
    /\ \E ev \in CommandEvents :
        /\ Record("mount", ev)
        /\ now' = now
        /\ IF RunCommand(ev) = "true" THEN Goto("settle3") /\ sent' = sent
           ELSE IF RunCommand(ev) = "false" THEN Fail(Stale)
           ELSE Propagate(ev) /\ sent' = sent

\* a remount after which the mountpoint is listed again
AfterRemountRelist == "listdir"

\* after the remount's "if self.Mount(mp): time.sleep(2)" the call falls
\* through to the write check
AfterRemount == "writecheck"

Settle3 == Settle("settle3", AfterRemount)

\* try: os.listdir(checkdir) except OSError: (mkdir)
ListCheckdir ==
    /\ pc = "listcd"
    /\ UNCHANGED <<args, cfgfile, cfg, logger, now, starttime, wakeups, idx, passes,
                   checkfile, prevfile, sent>>
    /\ \E ev \in ListdirEvents :
        /\ Record("listcd", ev)
        /\ IF ev = "ok" THEN Goto("write")
           ELSE IF Catches(ListdirHandler, ev) THEN Goto("mkdir")
           ELSE Propagate(ev)

\* a failed mkdir after which the write is tried all the same
OnMkdirFailGoOn == "write"

\* checkdir could not be created: Error(..., 3); return 3
OnMkdirFail == "return"

\* try: os.mkdir(checkdir, 0700) except: Error; return 3
Mkdir ==
    /\ pc = "mkdir"
    /\ UNCHANGED <<args, cfgfile, cfg, logger, now, starttime, wakeups, idx, passes,
                   checkfile, prevfile>>
    /\ \E ev \in MkdirEvents :
        /\ Record("mkdir", ev)
        /\ IF ev = "ok" THEN Goto("write") /\ sent' = sent
           ELSE IF Catches(MkdirHandler, ev)
                THEN IF OnMkdirFail = "return" THEN Fail(CheckDirUnavailable)
                     ELSE Goto("write") /\ sent' = sent
                ELSE Propagate(ev) /\ sent' = sent

\* the file opened for appending
WriteContentAppend(old, looptime) == Append(old, looptime)

\* open(checkfile, 'w+') truncates; the one line written is the timestamp
WriteContent(old, looptime) == <<looptime>>

\* a failed write leaves the file as it was (open failed) or truncated
\* (open succeeded, the write or the close failed)
FailedWriteContents(old) == {old, <<>>}

\* with open(checkfile, 'w+') as f: f.write("{}\n".format(time.ctime()))
WriteFile ==
    /\ pc = "write"
    /\ UNCHANGED <<args, cfgfile, cfg, logger, now, starttime, wakeups, idx, passes, prevfile>>
    /\ \E ev \in WriteEvents :
        /\ Record("write", ev)
        /\ IF ev = "ok"
           THEN /\ checkfile' = [checkfile EXCEPT ![mp] = WriteContent(@, ctime(now))]
                /\ sent' = sent \o OnHealthy(cfg)
                /\ Return(OK)
           ELSE /\ \E c \in FailedWriteContents(checkfile[mp]) :
                      checkfile' = [checkfile EXCEPT ![mp] = c]
                /\ IF Catches(WriteHandler, ev) THEN Fail(WriteFailed)
                   ELSE Propagate(ev) /\ sent' = sent

\* a sleep of one interval whatever the clock says
SleepTimeWholeInterval(c, t, start) == c.interval

\* the cadence sleep of MainLoop
SleepTime(c, t, start) == c.interval - ((t - start) % c.interval)

\* logger.debug(...); time.sleep(interval - ((time.time() - starttime) % interval))
Sleep ==
    /\ pc = "sleep"
    /\ UNCHANGED <<args, cfgfile, cfg, logger, starttime, idx, passes, err,
                   checkfile, prevfile, ops, sent, looplog>>
    /\ \E ev \in SleepEvents :
        IF ev = "ok"
        THEN /\ now' = now + SleepTime(cfg, now, starttime)
             /\ wakeups' = Append(wakeups, now')
             /\ pc' = "for"
             /\ UNCHANGED <<exc, mainloop, exitcode, intr>>
        ELSE /\ intr' = intr + 1
             /\ now' = now
             /\ wakeups' = wakeups
             /\ pc' = "exit"
             /\ exc' = ev
             /\ mainloop' = IF Catches(MainLoopHandler, ev) THEN "returned" ELSE "raised"
             /\ exitcode' = IF Catches(MainLoopHandler, ev) THEN CleanStatus ELSE UncaughtStatus

\* ------------------------------------------------------------ properties
InCheck == pc \in {"ismount", "mount1", "settle1", "listdir", "umount", "umount_l",
                   "settle2", "mount2", "settle3", "listcd", "mkdir", "write"}

\* MountMon has just returned to MainLoop, which is about to log and sleep
JustReturned == pc = "sleep"

\* the current call made a call `op` that ended with one of `evs`
Has(op, evs) == \E i \in DOMAIN ops : ops[i].op = op /\ ops[i].ev \in evs

Made(opset) == \E i \in DOMAIN ops : ops[i].op \in opset

Count(op, evs) == Cardinality({i \in DOMAIN ops : ops[i].op = op /\ ops[i].ev \in evs})

OpsAre(names, evs) ==
    /\ Len(ops) = Len(names)
    /\ \A i \in DOMAIN ops : ops[i].op = names[i] /\ ops[i].ev = evs[i]

\* Error could not build the ZabbixSender (alerting on, no 'zabbix_address'):
\* the KeyError ends the call, and the process, without a return value
AlertCrash ==
    /\ err = None
    /\ exc = "KeyError"
    /\ pc = "exit"
    /\ cfg.zabbix /\ cfg.zabbix_address = "absent"

C3_HealthyWrite ==
    (JustReturned /\ Has("write", {"ok"})) =>
        /\ err = OK
        /\ \E i \in DOMAIN ops :
              /\ ops[i].op = "write"
              /\ checkfile[mp] = <<ctime(ops[i].at)>>
              /\ ops[i].at = now
        /\ \A m \in DOMAIN checkfile : m # mp => checkfile[m] = prevfile[m]

\* the second of two healthy calls on the same mountpoint: the file held the
\* first call's timestamp and now holds another one
C3_Witness ==
    /\ JustReturned
    /\ err = OK
    /\ OpsAre(<<"ismount", "listdir", "listcd", "write">>, <<"true", "ok", "ok", "ok">>)
    /\ Len(prevfile[mp]) = 1
    /\ Len(checkfile[mp]) = 1
    /\ checkfile[mp] # prevfile[mp]

Recoveries ==
    IF cfg.remount THEN Count("ismount", {"false"}) + Count("listdir", {"OSError"}) ELSE 0

\* C5 as stated: with alerting enabled, a call that returns a non-zero code
\* has sent exactly one metric, carrying that code.
C5_ExactlyOneSend ==
    (JustReturned /\ err # OK /\ cfg.zabbix) =>
        Len(sent) = 1 /\ sent[1].value = err

\* C5 as amended: with alerting enabled, a call that returns a non-zero code
\* has sent one metric carrying that code, as its last, and before it one
\* metric for every recovery it started: exactly one send with remount
\* disabled, up to three with remount enabled.
C5_SendPerErrorCall ==
    (JustReturned /\ err # OK /\ cfg.zabbix) =>
        /\ Len(sent) = 1 + Recoveries
        /\ Len(sent) <= 3
        /\ sent[Len(sent)].value = err
        /\ ~cfg.remount => Len(sent) = 1

C5_Witness ==
    /\ JustReturned
    /\ cfg.zabbix
    /\ cfg.remount
    /\ err = WriteFailed
    /\ Len(sent) = 3

\* C6 as stated: a call that returns OK has sent nothing, every value sent
\* during a call is the code the call returns, and with alerting disabled
\* nothing is sent from the monitoring loop.
C6_OnlyReturnedCode ==
    /\ JustReturned => \A i \in DOMAIN sent : sent[i].value = err /\ err # OK
    /\ (mainloop # "no" /\ ~cfg.zabbix) => sent = <<>>

\* C6 as amended: with alerting disabled nothing is sent from the monitoring
\* loop; with remount disabled a call that returns OK has sent nothing and
\* every value sent is the code the call returns; with remount enabled a call
\* also sends 1 when it starts mounting an unmounted mountpoint and 2 when it
\* starts remounting a stale one, whatever it returns afterwards, so a call
\* that returns OK after a recovery has sent those codes.
C6_ReturnedCodeOrRecovery ==
    /\ (mainloop # "no" /\ ~cfg.zabbix) => sent = <<>>
    /\ JustReturned =>
          /\ \A i \in DOMAIN sent :
                \/ i = Len(sent) /\ sent[i].value = err /\ err # OK
                \/ cfg.remount /\ sent[i].value = NotMounted /\ Has("ismount", {"false"})
                \/ cfg.remount /\ sent[i].value = Stale /\ Has("listdir", {"OSError"})
          /\ err = OK => Len(sent) = (IF cfg.zabbix THEN Recoveries ELSE 0)
          /\ ~cfg.remount => (sent = <<>> \/ (Len(sent) = 1 /\ sent[1].value = err /\ err # OK))
    /\ mainloop # "no" => \A i \in DOMAIN sent : sent[i].value \in {NotMounted, Stale} \/ ~InCheck

C6_Witness ==
    /\ JustReturned
    /\ cfg.zabbix
    /\ cfg.remount
    /\ err = OK
    /\ Len(sent) = 2
    /\ sent[1].value = NotMounted
    /\ sent[2].value = Stale

\* the run ended inside GetConfig: self.logger is set by SetLogging, which
\* every path that gets past GetConfig calls first
ConfigLoadFailed == pc = "exit" /\ ~logger

\* C7 as stated: when loading the configuration fails the process ends with
\* exit status 5, MainLoop never runs and no mountpoint is checked.
C7_ConfigMissingExit ==
    ConfigLoadFailed =>
        /\ exitcode = ConfigMissing
        /\ mainloop = "no"
        /\ ops = <<>>

Swallowing == {"mount", "umount", "umount_l", "mkdir", "write"}

C11_SendFailureNeverEscalates ==
    /\ mainloop # "raised"
    /\ (mainloop # "no" /\ pc = "exit") => exc = "KeyboardInterrupt"
    /\ (mainloop # "no" /\ exc # "KeyboardInterrupt") => exitcode = None

\* every outcome a call can have
AnyOutcome == {"true", "false", "ok", "nonzero", "OSError", "IOError", "KeyboardInterrupt"}

\* C12 as stated: in one call of MountMon the mount command is run at most
\* once and at most two settle delays occur.
C12_OneMountTwoSettles ==
    /\ Count("mount", AnyOutcome) <= 1
    /\ Count("settle", AnyOutcome) <= 2

\* C12 as amended: in one call of MountMon each of the two recoveries is
\* attempted at most once (the mount of a mountpoint found unmounted, the
\* remount of one found stale), so the mount command is run at most twice,
\* each umount command at most once, and at most three settle delays occur,
\* one after every command that succeeded; the mount state and the listing
\* are queried once each; on a mountpoint found mounted the mount command is
\* run at most once and at most two settle delays occur.
C12_EachRecoveryAtMostOnce ==
    /\ Count("ismount", AnyOutcome) <= 1
    /\ Count("listdir", AnyOutcome) <= 1
    /\ Count("mount", AnyOutcome) <= 2
    /\ Count("mount", AnyOutcome) <= Recoveries
    /\ Count("umount", AnyOutcome) <= 1
    /\ Count("umount_l", AnyOutcome) <= Count("umount", {"nonzero", "OSError", "KeyboardInterrupt"})
    /\ Count("settle", AnyOutcome) <= 3
    /\ Count("settle", AnyOutcome) <=
           Count("mount", {"ok"}) + Count("umount", {"ok"}) + Count("umount_l", {"ok"})
    /\ Has("ismount", {"true"}) =>
           Count("mount", AnyOutcome) <= 1 /\ Count("settle", AnyOutcome) <= 2

\* unmounted, mounted, found stale, unmounted and mounted again
C12_Witness ==
    /\ JustReturned
    /\ Has("ismount", {"false"})
    /\ Has("listdir", {"OSError"})
    /\ Count("mount", {"ok"}) = 2
    /\ Count("settle", {"ok"}) = 3

\* the outcomes after which RunCommand returns False
Failed == {"nonzero", "OSError", "KeyboardInterrupt"}

\* C13: with remount enabled a recovery that fails ends the call with the
\* code of the failure that started it, before the write check: a failed
\* mount of a mountpoint found unmounted gives NotMounted (1); the lazy umount
\* is run only after the normal umount failed, and always then; when both
\* fail the call returns Stale (2) and no mount command follows; a failed
\* mount after a successful umount gives Stale (2).  In none of these cases
\* is the checkdir listed or created or the checkfile written.
C13_FailedRecoveryKeepsCode ==
    \A i \in DOMAIN ops :
        /\ (ops[i].op = "mount" /\ ops[i].ev \in Failed) =>
              /\ cfg.remount
              /\ i = Len(ops)
              /\ ~InCheck
              /\ ~Made({"listcd", "mkdir", "write"})
              /\ checkfile = prevfile
              /\ IF Has("listdir", {"OSError"})
                 THEN /\ err = Stale
                      /\ ops[i - 1].op = "settle"
                      /\ ops[i - 2].op \in {"umount", "umount_l"} /\ ops[i - 2].ev = "ok"
                 ELSE /\ err = NotMounted
                      /\ OpsAre(<<"ismount", "mount">>, <<"false", ops[i].ev>>)
        /\ ops[i].op = "umount_l" =>
              i > 1 /\ ops[i - 1].op = "umount" /\ ops[i - 1].ev \in Failed
        /\ (ops[i].op = "umount" /\ ops[i].ev \in Failed) =>
              IF i = Len(ops) THEN pc = "umount_l" ELSE ops[i + 1].op = "umount_l"
        /\ (ops[i].op = "umount_l" /\ ops[i].ev \in Failed) =>
              /\ cfg.remount
              /\ i = Len(ops)
              /\ ~InCheck
              /\ err = Stale
              /\ \A j \in DOMAIN ops :
                    ops[j].op = "mount" => j = 2 /\ ops[1].ev = "false" /\ ops[j].ev = "ok"
              /\ ~Made({"listcd", "mkdir", "write"})
              /\ checkfile = prevfile

\* mounted, listing fails, umount fails, lazy umount fails
C13_Witness ==
    /\ JustReturned
    /\ cfg.remount
    /\ err = Stale
    /\ OpsAre(<<"ismount", "listdir", "umount", "umount_l">>,
              <<"true", "OSError", "nonzero", "nonzero">>)

\* C14: with remount enabled a recovery that succeeds is not verified.  After
\* a successful mount of a mountpoint found unmounted, and its settle delay,
\* the mountpoint is listed (the mount state is not queried again).  After a
\* successful umount and mount of a stale mountpoint, and the settle delay,
\* the call goes on to the write check: the mountpoint is neither listed nor
\* queried again, the next call made is the listing of the checkdir, and the
\* value returned is the write check's: OK, CheckDirUnavailable or
\* WriteFailed, and OK when write_check is off.
C14_NoReverification ==
    \A i \in DOMAIN ops :
        (ops[i].op = "mount" /\ ops[i].ev = "ok") =>
            /\ cfg.remount
            /\ IF i = Len(ops) THEN pc \in {"settle1", "settle3"}
               ELSE ops[i + 1].op = "settle"
            /\ \A j \in DOMAIN ops : j > i => ops[j].op # "ismount"
            /\ IF ~Has("listdir", {"OSError"}) \/ (i = 2 /\ ops[1].ev = "false")
               THEN /\ ops[1].ev = "false"
                    /\ i = 2
                    /\ i + 2 <= Len(ops) => ops[i + 2].op = "listdir"
                    /\ (i + 1 = Len(ops) /\ ops[i + 1].ev = "ok") => pc = "listdir"
               ELSE /\ \A j \in DOMAIN ops : j > i => ops[j].op \notin {"listdir", "mount"}
                    /\ i + 2 <= Len(ops) => ops[i + 2].op = "listcd"
                    /\ (i + 1 = Len(ops) /\ ops[i + 1].ev = "ok" /\ idx > 0) =>
                           IF write_check THEN pc = "listcd"
                           ELSE ~InCheck /\ err = OK
                    /\ err \in {None, OK, CheckDirUnavailable, WriteFailed}
                    /\ (idx > 0 /\ ~write_check /\ ~InCheck /\ exc = "none") => err = OK

\* unmounted, mounted, listed and found stale, unmounted, mounted, and OK
\* without another look at the mountpoint
C14_Witness ==
    /\ JustReturned
    /\ err = OK
    /\ ~write_check
    /\ OpsAre(<<"ismount", "mount", "settle", "listdir", "umount", "settle", "mount", "settle">>,
              <<"false", "ok", "ok", "OSError", "ok", "ok", "ok", "ok">>)

\* the mountpoint of the n-th call of a run over `c`: the configured order,
\* pass after pass
NthMountpoint(c, n) == ((n - 1) % Len(c.mounts)) + 1

\* calls of MountMon started so far
Started == passes * Len(cfg.mounts) + idx

\* C15: the calls MainLoop logs are, pass after pass, one call for each
\* configured mountpoint in the configured order: the n-th call of the run is
\* for mountpoint ((n - 1) mod N) + 1, no call is missing and none is made
\* twice, and a pass is over only after N calls.  Whatever a call returns,
\* MainLoop sleeps and goes on with the next one: a run is ended only by an
\* exception (a KeyboardInterrupt, or the KeyError of an alert sink without
\* address), never by a value returned.
C15_OncePerMountpointPerPass ==
    mainloop # "no" =>
        /\ \A n \in DOMAIN looplog :
              /\ looplog[n].mp = NthMountpoint(cfg, n)
              /\ looplog[n].err \in {OK, NotMounted, Stale, CheckDirUnavailable, WriteFailed}
        /\ Len(looplog) = IF err = None /\ idx > 0 THEN Started - 1 ELSE Started
        /\ idx <= Len(cfg.mounts)
        /\ JustReturned => ENABLED Sleep
        /\ pc = "exit" => exc \in {"KeyboardInterrupt", "KeyError"}
        /\ (pc = "exit" /\ err # None) => exc = "KeyboardInterrupt" /\ mainloop = "returned"

\* two mountpoints, both failed in the first pass, and the first one checked
\* again in the second pass
C15_Witness ==
    /\ JustReturned
    /\ Len(cfg.mounts) = 2
    /\ passes = 1
    /\ Len(looplog) = 3
    /\ looplog[1].err # OK
    /\ looplog[2].err # OK
    /\ looplog[1].err # looplog[2].err
    /\ looplog[3].mp = 1

\* C16: starttime is the clock as it was when MainLoop started and is not
\* assigned again.  Every completed cadence sleep lasts
\* interval - ((now - starttime) mod interval) ticks, which is at least one
\* tick and at most one interval, a whole interval exactly when the clock is
\* on the grid already; and every time MainLoop wakes up, however long the
\* call before the sleep took, (now - starttime) mod interval = 0.
C16_SleepAlignsToGrid ==
    /\ [](mainloop = "running" =>
            /\ cfg.interval > 0
            /\ starttime = Epoch
            /\ now >= starttime
            /\ pc = "for" => (now - starttime) % cfg.interval = 0
            /\ JustReturned =>
                  /\ SleepTime(cfg, now, starttime) \in 1..cfg.interval
                  /\ (SleepTime(cfg, now, starttime) = cfg.interval) <=>
                         ((now - starttime) % cfg.interval = 0))
    /\ [][(mainloop = "running" /\ mainloop' = "running") =>
            /\ starttime' = starttime
            /\ (JustReturned /\ pc' = "for") =>
                  /\ now' - now = cfg.interval - ((now - starttime) % cfg.interval)
                  /\ now' > now
                  /\ now' - now <= cfg.interval
                  /\ (now' - starttime) % cfg.interval = 0]_vars

\* a call that took longer than one interval and ended off the grid, so
\* that the sleep after it is shorter than the interval
C16_Witness ==
    /\ JustReturned
    /\ mainloop = "running"
    /\ now - starttime > cfg.interval
    /\ (now - starttime) % cfg.interval # 0
    /\ SleepTime(cfg, now, starttime) < cfg.interval
    /\ Len(looplog) = 1

\* the clock when the n-th call of MountMon started: MainLoop's start for
\* the first call, the end of the sleep before it for the others
CallStart(n) == IF n = 1 THEN starttime ELSE wakeups[n - 1]

\* C17: the cadence sleep is part of the body of the for loop: every call of
\* MountMon that returns is followed by exactly one sleep before the next
\* call or the next pass, so that the sleeps completed are as many as the
\* calls that returned (one less while the last one's sleep is pending) and
\* N times the passes completed when a pass over N mountpoints ends.  Each
\* sleep ends on a later grid point than the one before, so two consecutive
\* calls for the same mountpoint start at least N intervals apart.
C17_SleepPerMountpoint ==
    mainloop # "no" =>
        /\ (pc = "for" \/ InCheck) => Len(wakeups) = Len(looplog)
        /\ JustReturned => Len(wakeups) = Len(looplog) - 1
        /\ Len(wakeups) \in {Len(looplog), Len(looplog) - 1}
        /\ (pc = "for" /\ idx = 0) => Len(wakeups) = passes * Len(cfg.mounts)
        /\ \A k \in DOMAIN wakeups :
              /\ wakeups[k] >= starttime + k * cfg.interval
              /\ k > 1 => wakeups[k] >= wakeups[k - 1] + cfg.interval
        /\ \A n \in DOMAIN looplog :
              n + Len(cfg.mounts) - 1 \in DOMAIN wakeups =>
                  /\ NthMountpoint(cfg, n + Len(cfg.mounts)) = looplog[n].mp
                  /\ \A m \in (n + 1)..(n + Len(cfg.mounts) - 1) :
                        NthMountpoint(cfg, m) # looplog[n].mp
                  /\ CallStart(n + Len(cfg.mounts)) - CallStart(n)
                         >= Len(cfg.mounts) * cfg.interval

\* two mountpoints: the first one is about to be checked for the second
\* time, two sleeps after its first check
C17_Witness ==
    /\ pc = "for"
    /\ mainloop = "running"
    /\ Len(cfg.mounts) = 2
    /\ passes = 1
    /\ idx = 0
    /\ Len(wakeups) = 2
    /\ CallStart(3) - CallStart(1) >= 2 * cfg.interval

\* C18 as stated, in finite form: a KeyboardInterrupt delivered to the running
\* MainLoop makes it return.  The exception reaches MainLoop's handler while
\* it propagates or it is consumed on the way, so once one has been delivered
\* MainLoop does not get as far as the end of a cadence sleep and the head of
\* the for loop again.
C18_InterruptEndsLoop ==
    ~(mainloop = "running" /\ intr > 0 /\ pc = "for")

\* C19: every value MainLoop and MountMon hand to the sender is one of 1..4:
\* a call that returns 0 has sent nothing on its own account, also when the
\* call before it, for the same mountpoint, had sent an error; the value 0 is
\* sent by the clear action only, which never enters MainLoop.
C19_LoopNeverSendsZero ==
    /\ mainloop # "no" =>
          \A i \in DOMAIN sent :
              sent[i].value \in {NotMounted, Stale, CheckDirUnavailable, WriteFailed}
    /\ (JustReturned /\ err = OK /\ ~cfg.remount) => sent = <<>>
    /\ \A i \in DOMAIN sent :
          sent[i].value = 0 => args.zabbix_clear /\ mainloop = "no" /\ ops = <<>>

\* alerting on: the only mountpoint failed in the first pass and is healthy
\* in the second, and the second call has sent nothing
C19_Witness ==
    /\ JustReturned
    /\ cfg.zabbix
    /\ cfg.zabbix_address = "up"
    /\ Len(cfg.mounts) = 1
    /\ Len(looplog) = 2
    /\ looplog[1].err # OK
    /\ looplog[2].err = OK
    /\ sent = <<>>

\* C20 as stated: every pass of the outer loop of MainLoop contains a sleep,
\* whatever the configured mountpoints, none included: when passes have been
\* completed, at least as many cadence sleeps have been completed.
C20_EveryPassSleeps ==
    mainloop # "no" => Len(wakeups) >= passes

Next ==
    \/ GetConfig \/ ZabbixClear \/ StartMainLoop
    \/ ForNext \/ IsMount \/ Mount1 \/ Settle1 \/ Listdir \/ Umount \/ UmountLazy
    \/ Settle2 \/ Mount2 \/ Settle3 \/ ListCheckdir \/ Mkdir \/ WriteFile \/ Sleep

Spec == Init /\ [][Next]_vars
====
